---- MODULE Spec2Model ----
(***************************************************************************)
(* The method-interception engine (InjectionHooks) of the console: the     *)
(* two static maps, the arrays and dispatcher closures they share with the *)
(* patched objects, and the dispatcher's call algorithm; the instance      *)
(* registry (InjectionRegistry), the event hooks (Hooks) and the start and *)
(* stop life cycle of Server objects.                                      *)
(***************************************************************************)
EXTENDS Integers, Sequences, FiniteSets, TLC

VARIABLES
    installed,        \* installed[o][m]: the value of member m of object o
    arrays,           \* heap of InjectionPoint[] arrays: [items, frozen]
    wraps,            \* heap of `wrapped` closures: [key, original, arr, method]
    injections,       \* InjectionHooks.injections: key -> array (0: no entry)
    originalMethods,  \* InjectionHooks.originalMethods: key -> function value
    last,             \* the last operation performed and what it returned
    trip,             \* the round trip in progress and the count of
                      \* operations performed (SpecTrip, SpecSteps)
    registry,         \* InjectionRegistry.registry: class entries in
                      \* insertion order, each an id map in insertion order
    hooks,            \* Hooks.hooks: event -> [present, items, frozen]
    trig,             \* the Hooks.trigger call in progress
    options,          \* options.serverName of each Server object ("" before
                      \* the object is constructed)
    minecraftServer,  \* this.minecraftServer of each Server object (0: null)
    minecraft,        \* heap of MinecraftServer instances: [owner, running]
    runningServers,   \* Server.runningServers: name -> Server ("": no entry)
    serverCache,      \* Server.serverCache: name -> Server ("": no entry)
    calls             \* startServer / stopServer calls suspended at an await

vars ==
    <<installed, arrays, wraps, injections, originalMethods, last, trip,
      registry, hooks, trig, options, minecraftServer, minecraft,
      runningServers, serverCache, calls>>

\* The engine's own state and the members it patches.
engine == <<installed, arrays, wraps, injections, originalMethods>>

\* The Server objects and their MinecraftServer instances.
console ==
    <<options, minecraftServer, minecraft, runningServers, serverCache, calls>>

\* The state of the application around the engine and the registry.
app == <<hooks, trig, console>>

\* ---------------------------------------------------------------- bounds

\* Dispatcher closures ever created by wrapMethod (every array inject
\* allocates comes with one, so this bounds the arrays too).
MaxWraps == 2
\* Interception points held by one array in Spec and SpecTrip.
MaxPoints == 2
\* Interception points held by one array in SpecChain and SpecAround.
MaxChain == 3
\* Operations performed before the round trip of SpecTrip starts.
MaxFree == 3
\* Operations performed in a behaviour of SpecSteps.
MaxSteps == 5
\* Points a list can hold before the injector callback stops injecting.
MaxLive == 4
\* Hooks one event can hold.
MaxHooks == 2
\* Hook operations performed around the trigger of SpecHooks.
MaxHookOps == 3
\* MinecraftServer instances created in a behaviour of SpecConsole.
MaxMinecraft == 3
\* startServer / stopServer calls in progress at once.
MaxCalls == 2

\* ------------------------------------------------------- objects, values

\* The objects extensions hand to the engine: two instances of class Server
\* and two object literals, p1 = { run() {...} } and p2 = { run: <data> }.
Servers == {"s1", "s2"}
Plain == {"p1", "p2"}
Objs == Servers \cup Plain

\* target.constructor.name: an object literal's constructor is Object.
ClassName(o) == IF o \in Servers THEN "Server" ELSE "Object"

\* Member names: run is a method of the class, name is a data property.
Members == {"run", "name"}

\* Function values: a class's own method, a dispatcher closure, or a value
\* that is not a function.
OrigFn(cls, m) == [wrap |-> FALSE, name |-> cls, member |-> m, n |-> 0]
WrapFn(w) == [wrap |-> TRUE, name |-> "", member |-> "", n |-> w]
NotAFunction == [wrap |-> FALSE, name |-> "", member |-> "", n |-> 0]

\* typeof v === 'function'
IsFunction(v) == v # NotAFunction

\* The member values of a freshly constructed object: methods come from the
\* class prototype, so two instances of a class hold the same function; a
\* literal's method is its own, and p2.run is not a function.
Pristine(o, m) ==
    CASE m = "run" /\ o \in Servers -> OrigFn(ClassName(o), m)
      [] m = "run" /\ o = "p1" -> OrigFn(o, m)
      [] OTHER -> NotAFunction

Priorities == {5, 10}
ArgValues == {0, 1}

\* ------------------------------------------------------------- callbacks

\* What a callback does when it is invoked with a context.
\*   noop      returns nothing
\*   thrower   throws
\*   mutator   context.args[0] = 2, returns nothing
\*   assigner  context.args = [2], returns nothing
\*   returner  returns 7 (as an around callback: without calling proceed)
\*   pass      return context.proceed()
\*   passWith  return context.proceed(3)
\*   passThrow context.proceed(); throw
\*   mutPass   context.args[0] = 2; return context.proceed()
\*   bump      return context.proceed() + 100
\*   passLog   r = context.proceed(); log; return r
\*   injector  InjectionHooks.inject(context.target, context.method, noop,
\*             'after', 10) unless the list is full; as an around callback
\*             it then returns context.proceed()
\*   remover   InjectionHooks.removeInjection(context.target,
\*             context.method, noop); as an around callback it then returns
\*             context.proceed()
Throws(cb) == cb = "thrower"

\* The element 0 of the args array after the callback ran: only an in-place
\* write reaches the array the dispatcher holds.
ArgsAfter(cb, arg) == IF cb \in {"mutator", "mutPass"} THEN 2 ELSE arg

\* getInjectionKey
GetInjectionKey(target, method) == <<ClassName(target), method>>

Keys == {GetInjectionKey(o, m) : o \in Objs, m \in Members}

\* this.injections.has(key), this.originalMethods.has(key): an absent entry
\* is array 0, respectively a value that is not a function.
HasList(key) == injections[key] # 0
HasOriginal(key) == IsFunction(originalMethods[key])

\* this.injections.get(key) || []
ListOf(key) == IF HasList(key) THEN arrays[injections[key]].items ELSE <<>>

\* ------------------------------------------------------------ dispatcher

\* One callback invocation or one run of the original method, as observed.
Ev(what, arr, idx, cb, recv, arg, res) ==
    [what |-> what, arr |-> arr, idx |-> idx, cb |-> cb, recv |-> recv,
     arg |-> arg, res |-> res]

\* The wrapped method itself, a stand-in for any method of the host
\* application: it throws on argument 0 and returns its argument plus one
\* otherwise.
OriginalCall(fn, recv, arg) ==
    IF arg = 0
    THEN [st |-> "err", val |-> 0, err |-> "original",
          tr |-> <<Ev("original", 0, 0, fn.member, recv, arg, 0)>>]
    ELSE [st |-> "ok", val |-> arg + 1, err |-> "",
          tr |-> <<Ev("original", 0, 0, fn.member, recv, arg, arg + 1)>>]

\* injections.filter(i => i.type === type), as the indices it keeps
IndicesOf(items, type) ==
    SelectSeq([i \in 1..Len(items) |-> i], LAMBDA i : items[i].type = type)

\* A before loop whose body has no try/catch.
BeforeStepUncaught(arrId, items, i, recv, arg) ==
    [st |-> IF Throws(items[i].callback) THEN "err" ELSE "ok",
     err |-> IF Throws(items[i].callback) THEN items[i].callback ELSE "",
     arg |-> ArgsAfter(items[i].callback, arg),
     tr |-> <<Ev("before", arrId, i, items[i].callback, recv, arg, 0)>>]

\* One turn of the before loop: the callback runs inside try/catch.
BeforeStep(arrId, items, i, recv, arg) ==
    [st |-> "ok", err |-> "", arg |-> ArgsAfter(items[i].callback, arg),
     tr |-> <<Ev("before", arrId, i, items[i].callback, recv, arg, 0)>>]

RECURSIVE RunBefore(_, _, _, _, _)
RunBefore(arrId, items, idxs, recv, arg) ==
    IF idxs = <<>>
    THEN [st |-> "ok", err |-> "", arg |-> arg, tr |-> <<>>]
    ELSE LET s == BeforeStep(arrId, items, Head(idxs), recv, arg)
         IN IF s.st = "err"
            THEN s
            ELSE LET r == RunBefore(arrId, items, Tail(idxs), recv, s.arg)
                 IN [r EXCEPT !.tr = s.tr \o r.tr]

\* One turn of the after loop: the callback runs inside try/catch and what
\* it returns is dropped.
AfterStep(arrId, items, i, recv, arg, result) ==
    [st |-> "ok", err |-> "", arg |-> ArgsAfter(items[i].callback, arg),
     tr |-> <<Ev("after", arrId, i, items[i].callback, recv, arg, result)>>]

RECURSIVE RunAfter(_, _, _, _, _, _)
RunAfter(arrId, items, idxs, recv, arg, result) ==
    IF idxs = <<>>
    THEN [st |-> "ok", err |-> "", arg |-> arg, tr |-> <<>>]
    ELSE LET s == AfterStep(arrId, items, Head(idxs), recv, arg, result)
         IN IF s.st = "err"
            THEN s
            ELSE LET r == RunAfter(arrId, items, Tail(idxs), recv, s.arg, result)
                 IN [r EXCEPT !.tr = s.tr \o r.tr]

\* A proceed that hands on what it is called with.
ProceedForwardsPassed(chainArg, passed) == passed

\* proceed: () => next.apply(this, chainArgs): the link's own array is
\* forwarded, whatever the callback passes to proceed.
ProceedArgs(chainArg, passed) == chainArg

\* What the callback passes to proceed (passWith passes 3).
PassedTo(cb, chainArg) == IF cb = "passWith" THEN 3 ELSE chainArg

\* A chain link without the catch block.
AroundRethrows(cbOut, fallback) == cbOut

\* The catch block of a chain link: the error is logged and the link
\* returns next.apply(this, chainArgs).
AroundCatch(cbOut, fallback) ==
    IF cbOut.st = "err"
    THEN [fallback EXCEPT !.tr = cbOut.tr \o fallback.tr]
    ELSE cbOut

\* A link that runs the next link before it invokes its callback.
AroundCallbackEager(cb, ev, inner) ==
    CASE cb = "returner" ->
            [st |-> "ok", val |-> 7, err |-> "", tr |-> <<ev>> \o inner.tr]
      [] cb = "thrower" ->
            [st |-> "err", val |-> 0, err |-> cb, tr |-> <<ev>> \o inner.tr]
      [] OTHER ->
            [inner EXCEPT !.tr = <<ev>> \o inner.tr]

\* What an around callback returns or throws, given the outcome of its
\* proceed() (used only by the callbacks that call it).
AroundCallback(cb, ev, inner) ==
    CASE cb = "returner" ->
            [st |-> "ok", val |-> 7, err |-> "", tr |-> <<ev>>]
      [] cb = "thrower" ->
            [st |-> "err", val |-> 0, err |-> cb, tr |-> <<ev>>]
      [] cb \in {"pass", "passWith", "mutPass", "injector", "remover"} ->
            [inner EXCEPT !.tr = <<ev>> \o inner.tr]
      [] cb = "passThrow" ->
            [st |-> "err", val |-> 0,
             err |-> IF inner.st = "err" THEN inner.err ELSE cb,
             tr |-> <<ev>> \o inner.tr]
      [] cb = "bump" ->
            [inner EXCEPT !.tr = <<ev>> \o inner.tr,
                          !.val = IF inner.st = "ok" THEN inner.val + 100 ELSE 0]
      [] cb = "passLog" ->
            [inner EXCEPT !.tr =
                <<ev>> \o inner.tr
                    \o IF inner.st = "ok"
                       THEN <<[ev EXCEPT !.what = "log", !.res = inner.val]>>
                       ELSE <<>>]
      [] OTHER ->
            [st |-> "ok", val |-> 0, err |-> "", tr |-> <<ev>>]

\* The order in which reduce folds the around points into the chain: the
\* accumulator starts as the original and each point, taken in list order,
\* wraps what was built so far, so the last point of the list is outermost.
ChainOrder(around) == around

RECURSIVE Link(_, _, _, _, _, _, _)
RECURSIVE Invoke(_, _, _)

\* The j-th link of the chain built by reduce; link 0 is original.bind(this).
Link(arrId, items, order, j, original, recv, arg) ==
    IF j = 0
    THEN Invoke(original, recv, arg)
    ELSE LET i == order[j]
             cb == items[i].callback
             ev == Ev("around", arrId, i, cb, recv, arg, 0)
             chainArg == ArgsAfter(cb, arg)
             inner == Link(arrId, items, order, j - 1, original, recv,
                           ProceedArgs(chainArg, PassedTo(cb, chainArg)))
             fallback == Link(arrId, items, order, j - 1, original, recv,
                              chainArg)
         IN AroundCatch(AroundCallback(cb, ev, inner), fallback)

\* A dispatcher that runs its after loop ahead of the computation.
WrappedAfterFirst(arrId, items, original, recv, arg) ==
    LET b == RunBefore(arrId, items, IndicesOf(items, "before"), recv, arg)
        a == RunAfter(arrId, items, IndicesOf(items, "after"), recv, b.arg, 0)
        order == ChainOrder(IndicesOf(items, "around"))
        r == Link(arrId, items, order, Len(order), original, recv, a.arg)
    IN [r EXCEPT !.tr = b.tr \o a.tr \o r.tr]

\* The body of `wrapped`, run on the array the closure captured.
Wrapped(arrId, items, original, recv, arg) ==
    LET b == RunBefore(arrId, items, IndicesOf(items, "before"), recv, arg)
        order == ChainOrder(IndicesOf(items, "around"))
        r == Link(arrId, items, order, Len(order), original, recv, b.arg)
        a == RunAfter(arrId, items, IndicesOf(items, "after"), recv, b.arg,
                      r.val)
    IN IF b.st = "err"
       THEN [st |-> "err", val |-> 0, err |-> b.err, tr |-> b.tr]
       ELSE IF r.st = "err"
       THEN [r EXCEPT !.tr = b.tr \o r.tr]
       ELSE IF a.st = "err"
       THEN [st |-> "err", val |-> 0, err |-> a.err,
             tr |-> b.tr \o r.tr \o a.tr]
       ELSE [st |-> "ok", val |-> r.val, err |-> "",
             tr |-> b.tr \o r.tr \o a.tr]

\* Calling a function value with a receiver and an argument.
Invoke(fn, recv, arg) ==
    IF fn.wrap
    THEN Wrapped(wraps[fn.n].arr, arrays[wraps[fn.n].arr].items,
                 wraps[fn.n].original, recv, arg)
    ELSE OriginalCall(fn, recv, arg)

NoOutcome == [st |-> "none", val |-> 0, err |-> "", tr |-> <<>>]

NoPoint == [target |-> "", method |-> "", callback |-> "", type |-> "",
            priority |-> 0]

NoTrip ==
    [phase |-> "free", o |-> "", m |-> "", pre |-> NotAFunction, n |-> 0]

\* Instance ids; register's default id is 'default'.
Ids == {"default", "a"}

\* Event names, and the callbacks plugins register for them.
\*   plain      returns
\*   thrower    throws
\*   rejecter   returns a promise that rejects
\*   selfUnreg  Hooks.unregister(event, itself)
\*   adder      Hooks.register(event, plain, 20) unless the event is full
Events == {"start", "stop"}
HookCallbacks == {"plain", "thrower", "rejecter", "selfUnreg", "adder"}
HookPriorities == {5, 10}

\* No entry for an event in Hooks.hooks.
NoHooks == [present |-> FALSE, items |-> <<>>, frozen |-> FALSE]

\* No trigger call was made yet.
NoTrigger ==
    [active |-> FALSE, done |-> FALSE, event |-> "", i |-> 0, busy |-> "",
     detached |-> FALSE, items |-> <<>>, start |-> <<>>, ran |-> <<>>,
     removed |-> {}, edited |-> FALSE]

\* The record of an operation: `ok` is FALSE when it threw (for hasInjections
\* it is the answer), `point` the point an inject was asked to add, `prev`
\* the key's list before the operation, `list` what getInjections returned,
\* `out` the outcome of a method call.
Did(op, target, method, cb, ok) ==
    [op |-> op, target |-> target, method |-> method, cb |-> cb, ok |-> ok,
     arg |-> 0, point |-> NoPoint, prev |-> <<>>, list |-> <<>>,
     out |-> NoOutcome, id |-> ""]

Init ==
    /\ installed = [o \in Objs |-> [m \in Members |-> Pristine(o, m)]]
    /\ arrays = <<>>
    /\ wraps = <<>>
    /\ injections = [k \in Keys |-> 0]
    /\ originalMethods = [k \in Keys |-> NotAFunction]
    /\ last = Did("init", "", "", "", TRUE)
    /\ trip = NoTrip
    /\ registry = <<>>
    /\ hooks = [e \in Events |-> NoHooks]
    /\ trig = NoTrigger
    /\ options = [o \in Servers |-> ""]
    /\ minecraftServer = [o \in Servers |-> 0]
    /\ minecraft = <<>>
    /\ runningServers = [n \in Ids |-> ""]
    /\ serverCache = [n \in Ids |-> ""]
    /\ calls = <<>>

\* ---------------------------------------------------------------- inject

\* A splice that drops the count argument: splice(index) removes the rest
\* of the array.
SpliceToEnd(items, index) == SubSeq(items, 1, index - 1)

\* An unstable sort: a point goes ahead of the points of its own priority.
InsertAheadOfEquals(sorted, p) ==
    SelectSeq(sorted, LAMBDA q : q.priority > p.priority) \o <<p>>
        \o SelectSeq(sorted, LAMBDA q : q.priority <= p.priority)

\* injections.sort((a, b) => b.priority - a.priority): Array.prototype.sort
\* is stable, so a point goes behind the points of its own priority.
InsertByPriority(sorted, p) ==
    LET ahead == SelectSeq(sorted, LAMBDA q : q.priority >= p.priority)
        behind == SelectSeq(sorted, LAMBDA q : q.priority < p.priority)
    IN ahead \o <<p>> \o behind

RECURSIVE SortByPriority(_)
SortByPriority(items) ==
    IF items = <<>>
    THEN <<>>
    ELSE InsertByPriority(SortByPriority(SubSeq(items, 1, Len(items) - 1)),
                          items[Len(items)])

\* A capture that takes the class's own method instead of what the target
\* holds.
CapturedPrototypeMethod(target, method) ==
    IF HasOriginal(GetInjectionKey(target, method))
    THEN originalMethods[GetInjectionKey(target, method)]
    ELSE Pristine(target, method)

\* The function inject stores as the key's original: the stored one if the
\* key has one, else whatever target[method] holds now.
CapturedOriginal(target, method) ==
    IF HasOriginal(GetInjectionKey(target, method))
    THEN originalMethods[GetInjectionKey(target, method)]
    ELSE installed[target][method]

\* wrapMethod: a new closure over the key's stored original and the key's
\* array, installed at target[method].
WrapMethod(target, method, original, arrId) ==
    /\ Len(wraps) < MaxWraps
    /\ wraps' = Append(wraps, [key |-> GetInjectionKey(target, method),
                               original |-> original, arr |-> arrId,
                               method |-> method])
    /\ installed' = [installed EXCEPT ![target][method] = WrapFn(Len(wraps) + 1)]

Inject(target, method, cb, type, priority) ==
    LET key == GetInjectionKey(target, method)
        point == [target |-> target, method |-> method, callback |-> cb,
                  type |-> type, priority |-> priority]
        original == CapturedOriginal(target, method)
        fresh == ~HasList(key)
        arrId == IF fresh THEN Len(arrays) + 1 ELSE injections[key]
        items == SortByPriority(Append(ListOf(key), point))
        did == [Did("inject", target, method, cb, TRUE)
                    EXCEPT !.point = point, !.prev = ListOf(key)]
    IN IF ~IsFunction(original)
       THEN \* throw new Error(`Method ${method} does not exist on target`)
            /\ last' = [did EXCEPT !.ok = FALSE]
            /\ UNCHANGED <<installed, arrays, wraps, injections, originalMethods>>
       ELSE IF ~fresh /\ arrays[arrId].frozen
       THEN \* push on a frozen array throws a TypeError
            /\ originalMethods' = [originalMethods EXCEPT ![key] = original]
            /\ last' = [did EXCEPT !.ok = FALSE]
            /\ UNCHANGED <<installed, arrays, wraps, injections>>
       ELSE /\ originalMethods' = [originalMethods EXCEPT ![key] = original]
            /\ arrays' = IF fresh
                         THEN Append(arrays, [items |-> items, frozen |-> FALSE])
                         ELSE [arrays EXCEPT ![arrId].items = items]
            /\ injections' = [injections EXCEPT ![key] = arrId]
            /\ IF installed[target][method] = original
               THEN WrapMethod(target, method, original, arrId)
               ELSE UNCHANGED <<installed, wraps>>
            /\ last' = did

\* ------------------------------------------------------- removeInjection

\* injections.findIndex(i => i.callback === callback), 0 for -1
FindIndex(items, cb) ==
    IF \E i \in 1..Len(items) : items[i].callback = cb
    THEN CHOOSE i \in 1..Len(items) :
            /\ items[i].callback = cb
            /\ \A j \in 1..(i - 1) : items[j].callback # cb
    ELSE 0

\* injections.splice(index, 1)
Splice(items, index) ==
    SubSeq(items, 1, index - 1) \o SubSeq(items, index + 1, Len(items))

RemoveInjection(target, method, cb) ==
    LET key == GetInjectionKey(target, method)
        arrId == injections[key]
        index == FindIndex(ListOf(key), cb)
        did == [Did("removeInjection", target, method, cb, TRUE)
                    EXCEPT !.prev = ListOf(key)]
    IN IF ~HasList(key) \/ index = 0
       THEN /\ last' = did
            /\ UNCHANGED <<installed, arrays, wraps, injections, originalMethods>>
       ELSE IF arrays[arrId].frozen
       THEN \* splice on a frozen array throws a TypeError
            /\ last' = [did EXCEPT !.ok = FALSE]
            /\ UNCHANGED <<installed, arrays, wraps, injections, originalMethods>>
       ELSE /\ arrays' = [arrays EXCEPT ![arrId].items = Splice(@, index)]
            /\ IF Len(ListOf(key)) = 1
               THEN /\ injections' = [injections EXCEPT ![key] = 0]
                    /\ installed' = [installed EXCEPT ![target][method] =
                                        originalMethods[key]]
                    /\ originalMethods' = [originalMethods EXCEPT ![key] =
                                              NotAFunction]
               ELSE UNCHANGED <<installed, injections, originalMethods>>
            /\ last' = did
            /\ UNCHANGED wraps

\* ------------------------------------------------------- clearInjections

\* A clear that forgets to delete the stored original.
ClearInjectionsKeepsOriginal(target, method) ==
    LET key == GetInjectionKey(target, method)
    IN /\ IF HasList(key)
          THEN /\ installed' = [installed EXCEPT ![target][method] =
                                   originalMethods[key]]
               /\ injections' = [injections EXCEPT ![key] = 0]
          ELSE UNCHANGED <<installed, injections>>
       /\ last' = [Did("clearInjections", target, method, "", TRUE)
                      EXCEPT !.prev = ListOf(key)]
       /\ UNCHANGED <<arrays, wraps, originalMethods>>

\* clearInjections(target, method) with both arguments given
ClearInjections(target, method) ==
    LET key == GetInjectionKey(target, method)
        did == [Did("clearInjections", target, method, "", TRUE)
                    EXCEPT !.prev = ListOf(key)]
    IN /\ IF HasList(key)
          THEN /\ installed' = [installed EXCEPT ![target][method] =
                                   originalMethods[key]]
               /\ originalMethods' = [originalMethods EXCEPT ![key] =
                                         NotAFunction]
               /\ injections' = [injections EXCEPT ![key] = 0]
          ELSE UNCHANGED <<installed, injections, originalMethods>>
       /\ last' = did
       /\ UNCHANGED <<arrays, wraps>>

\* this.injections.get(key)?.[0]?.target, "" for undefined
FirstTarget(key) == IF ListOf(key) = <<>> THEN "" ELSE ListOf(key)[1].target

\* clearInjections without a method name (and with or without a target):
\* every stored original goes back to the target of its key's first point,
\* then both maps are emptied.
ClearAllInjections(target) ==
    /\ installed' =
          [o \in Objs |-> [m \in Members |->
              IF /\ HasOriginal(GetInjectionKey(o, m))
                 /\ FirstTarget(GetInjectionKey(o, m)) = o
              THEN originalMethods[GetInjectionKey(o, m)]
              ELSE installed[o][m]]]
    /\ injections' = [k \in Keys |-> 0]
    /\ originalMethods' = [k \in Keys |-> NotAFunction]
    /\ last' = Did("clearAll", target, "", "", TRUE)
    /\ UNCHANGED <<arrays, wraps>>

\* --------------------------------------------------------------- queries

\* getInjections: Object.freeze(this.injections.get(key) || []) freezes the
\* key's own array and returns it.
GetInjections(target, method) ==
    LET key == GetInjectionKey(target, method)
    IN /\ arrays' = IF HasList(key)
                    THEN [arrays EXCEPT ![injections[key]].frozen = TRUE]
                    ELSE arrays
       /\ last' = [Did("getInjections", target, method, "", TRUE)
                      EXCEPT !.list = ListOf(key)]
       /\ UNCHANGED <<installed, wraps, injections, originalMethods>>

\* hasInjections
HasInjections(target, method) ==
    /\ HasList(GetInjectionKey(target, method))
    /\ Len(ListOf(GetInjectionKey(target, method))) > 0

\* ------------------------------------------------------------------ call

\* target[method](arg), by any caller
Call(target, method, arg) ==
    /\ IsFunction(installed[target][method])
    /\ last' = [Did("call", target, method, "", TRUE)
                   EXCEPT !.arg = arg,
                          !.out = Invoke(installed[target][method], target, arg)]
    /\ UNCHANGED <<installed, arrays, wraps, injections, originalMethods>>

\* ------------------------------------ dispatch with callbacks that edit

\* What a callback that calls back into the engine does to the key's live
\* array while a dispatch of target[method] is in progress. The key holds
\* the running point, so inject finds the key and its original and pushes
\* and sorts, and removeInjection never empties the list.
Edit(cb, live, target, method) ==
    CASE cb = "injector" /\ Len(live) < MaxLive ->
            SortByPriority(Append(live,
                [target |-> target, method |-> method, callback |-> "noop",
                 type |-> "after", priority |-> 10]))
      [] cb = "remover" /\ FindIndex(live, "noop") # 0 ->
            Splice(live, FindIndex(live, "noop"))
      [] OTHER -> live

\* injections.filter(i => i.type === type)
FilterType(items, type) == SelectSeq(items, LAMBDA p : p.type = type)

\* A dispatcher that reads the key's array again at every turn.
LoopDomainLive(snapshot, live, type) == FilterType(live, type)

\* The points a loop (or the reduce) of one dispatch goes through: the array
\* filter returned when the call started, whatever the live array has become.
LoopDomain(snapshot, live, type) == snapshot

\* for (const injection of beforeInjections / afterInjections), from the
\* k-th turn on, the callbacks editing the live array as they run.
RECURSIVE LiveLoop(_, _, _, _, _, _, _, _)
LiveLoop(type, arrId, snapshot, live, k, recv, arg, res) ==
    LET dom == LoopDomain(snapshot, live, type)
    IN IF k > Len(dom)
       THEN [live |-> live, tr |-> <<>>]
       ELSE LET rest == LiveLoop(type, arrId, snapshot,
                                 Edit(dom[k].callback, live, recv,
                                      dom[k].method),
                                 k + 1, recv, arg, res)
            IN [rest EXCEPT !.tr =
                   <<Ev(type, arrId, 0, dom[k].callback, recv, arg, res)>>
                       \o @]

\* The chain reduce built from dom, entered at its j-th link (the last point
\* of dom is outermost): every around callback here edits, then proceeds.
RECURSIVE LiveChain(_, _, _, _, _, _, _)
LiveChain(arrId, dom, live, j, original, recv, arg) ==
    IF j = 0
    THEN LET o == OriginalCall(original, recv, arg)
         IN [live |-> live, val |-> o.val, tr |-> o.tr]
    ELSE LET inner == LiveChain(arrId, dom,
                                Edit(dom[j].callback, live, recv,
                                     dom[j].method),
                                j - 1, original, recv, arg)
         IN [inner EXCEPT !.tr =
                <<Ev("around", arrId, 0, dom[j].callback, recv, arg, 0)>>
                    \o @]

\* The body of `wrapped` when callbacks edit the key's array under it.
LiveWrapped(arrId, items, original, recv, arg) ==
    LET b == LiveLoop("before", arrId, FilterType(items, "before"), items, 1,
                      recv, arg, 0)
        dom == LoopDomain(FilterType(items, "around"), b.live, "around")
        r == LiveChain(arrId, dom, b.live, Len(dom), original, recv, arg)
        a == LiveLoop("after", arrId, FilterType(items, "after"), r.live, 1,
                      recv, arg, r.val)
    IN [st |-> "ok", val |-> r.val, err |-> "", tr |-> b.tr \o r.tr \o a.tr,
        live |-> a.live]

\* target[method](arg) through its dispatcher, the edits of the callbacks
\* landing in the array.
LiveCall(target, method, arg) ==
    LET fn == installed[target][method]
        arrId == wraps[fn.n].arr
        out == LiveWrapped(arrId, arrays[arrId].items, wraps[fn.n].original,
                           target, arg)
    IN /\ fn.wrap
       /\ injections[GetInjectionKey(target, method)] = arrId
       /\ arrays' = [arrays EXCEPT ![arrId].items = out.live]
       /\ last' = [Did("call", target, method, "", TRUE)
                      EXCEPT !.arg = arg, !.prev = arrays[arrId].items,
                             !.out = [st |-> out.st, val |-> out.val,
                                      err |-> out.err, tr |-> out.tr]]
       /\ UNCHANGED <<installed, wraps, injections, originalMethods>>

\* -------------------------------------------------------------- registry

\* Class names handed to the registry's queries.
Classes == {ClassName(o) : o \in Objs}

\* The position of a key in an insertion-ordered map, 0 when absent.
PosOf(entries, field, key) ==
    IF \E i \in 1..Len(entries) : entries[i][field] = key
    THEN CHOOSE i \in 1..Len(entries) : entries[i][field] = key
    ELSE 0

\* this.registry.has(className)
IsInjectable(className) == PosOf(registry, "cls", className) # 0

\* this.registry.get(className), the empty map standing for undefined
IdMap(className) ==
    IF IsInjectable(className)
    THEN registry[PosOf(registry, "cls", className)].ids
    ELSE <<>>

\* A container that adds an entry at every set, as a list would.
MapSetAppends(entries, field, key, entry) == Append(entries, entry)

\* A container whose set moves an existing key to the end.
MapSetMovesToEnd(entries, field, key, entry) ==
    Append(SelectSeq(entries, LAMBDA e : e[field] # key), entry)

\* Map.prototype.set: the entry of an existing key is replaced where it
\* stands, a new key goes to the end.
MapSet(entries, field, key, entry) ==
    IF PosOf(entries, field, key) # 0
    THEN [entries EXCEPT ![PosOf(entries, field, key)] = entry]
    ELSE Append(entries, entry)

\* Map.prototype.delete
MapDelete(entries, field, key) ==
    SelectSeq(entries, LAMBDA e : e[field] # key)

\* getInstance: the object under (className, id), "" standing for null
GetInstance(className, id) ==
    IF PosOf(IdMap(className), "id", id) # 0
    THEN IdMap(className)[PosOf(IdMap(className), "id", id)].obj
    ELSE ""

\* getInstances: Array.from(map.values())
GetInstances(className) ==
    [i \in 1..Len(IdMap(className)) |-> IdMap(className)[i].obj]

\* getAllClasses: Array.from(this.registry.keys())
GetAllClasses == [i \in 1..Len(registry) |-> registry[i].cls]

\* register(instance, id)
Register(instance, id) ==
    LET className == ClassName(instance)
        ids == MapSet(IdMap(className), "id", id,
                      [id |-> id, obj |-> instance])
    IN /\ registry' = MapSet(registry, "cls", className,
                             [cls |-> className, ids |-> ids])
       /\ last' = [Did("register", instance, "", "", TRUE)
                      EXCEPT !.id = id, !.prev = IdMap(className)]
       /\ UNCHANGED <<engine, trip, hooks, trig>>

\* An unregister that leaves the emptied id map of a class in the registry.
UnregisterKeepsClass(className, id) ==
    LET ids == MapDelete(IdMap(className), "id", id)
    IN /\ registry' =
             IF PosOf(IdMap(className), "id", id) = 0
             THEN registry
             ELSE MapSet(registry, "cls", className,
                         [cls |-> className, ids |-> ids])
       /\ last' = [Did("unregister", "", "", "", TRUE)
                      EXCEPT !.id = id, !.method = className,
                             !.prev = IdMap(className)]
       /\ UNCHANGED <<engine, trip, hooks, trig>>

\* unregister(className, id)
Unregister(className, id) ==
    LET ids == MapDelete(IdMap(className), "id", id)
    IN /\ registry' =
             IF PosOf(IdMap(className), "id", id) = 0
             THEN registry
             ELSE IF Len(ids) = 0
             THEN MapDelete(registry, "cls", className)
             ELSE MapSet(registry, "cls", className,
                         [cls |-> className, ids |-> ids])
       /\ last' = [Did("unregister", "", "", "", TRUE)
                      EXCEPT !.id = id, !.method = className,
                             !.prev = IdMap(className)]
       /\ UNCHANGED <<engine, trip, hooks, trig>>

\* InjectionRegistry.clear
ClearRegistry ==
    /\ registry' = <<>>
    /\ last' = Did("clearRegistry", "", "", "", TRUE)
    /\ UNCHANGED <<engine, trip, hooks, trig>>

\* ----------------------------------------------------------------- hooks

\* A register that leaves the pushed hook at the end of the array.
KeepPushOrder(items) == items

\* hooks.sort((a, b) => b.priority - a.priority)
SortHooks(items) == SortByPriority(items)

\* The map after register(event, callback, priority); push throws on an
\* array that getHooks froze.
RegisterHooks(hs, event, callback, priority) ==
    IF hs[event].present /\ hs[event].frozen
    THEN [ok |-> FALSE, hooks |-> hs]
    ELSE [ok |-> TRUE,
          hooks |-> [hs EXCEPT ![event] =
              [present |-> TRUE, frozen |-> FALSE,
               items |-> SortHooks(Append(hs[event].items,
                            [name |-> event, callback |-> callback,
                             priority |-> priority]))]]]

\* The map after unregister(event, callback); splice throws on an array
\* that getHooks froze.
UnregisterHooks(hs, event, callback) ==
    LET index == FindIndex(hs[event].items, callback)
    IN IF ~hs[event].present \/ index = 0
       THEN [ok |-> TRUE, hooks |-> hs]
       ELSE IF hs[event].frozen
       THEN [ok |-> FALSE, hooks |-> hs]
       ELSE IF Len(hs[event].items) = 1
       THEN [ok |-> TRUE, hooks |-> [hs EXCEPT ![event] = NoHooks]]
       ELSE [ok |-> TRUE,
             hooks |-> [hs EXCEPT ![event].items = Splice(@, index)]]

\* What the operation that turned the map from hs into new did to the
\* trigger in progress: the array the trigger iterates is the event's own
\* array until the event's entry is deleted from the map, and then holds
\* what the operation left in it.
Touch(t, hs, new, callbacks, left) ==
    IF ~t.active \/ t.detached \/ new[t.event] = hs[t.event]
    THEN t
    ELSE IF ~new[t.event].present
    THEN [t EXCEPT !.detached = TRUE, !.edited = TRUE, !.items = left,
                   !.removed = @ \cup callbacks]
    ELSE [t EXCEPT !.edited = new[t.event].items # hs[t.event].items
                                \/ t.edited,
                   !.removed = @ \cup callbacks]

\* Hooks.register(event, callback, priority)
HookRegister(event, callback, priority) ==
    LET r == RegisterHooks(hooks, event, callback, priority)
    IN /\ hooks' = r.hooks
       /\ trig' = Touch(trig, hooks, r.hooks, {}, <<>>)
       /\ last' = [Did("hookRegister", "", event, callback, r.ok)
                      EXCEPT !.prev = hooks[event].items, !.arg = priority]
       /\ UNCHANGED <<engine, registry, console>>

\* Hooks.unregister(event, callback)
HookUnregister(event, callback) ==
    LET r == UnregisterHooks(hooks, event, callback)
    IN /\ hooks' = r.hooks
       /\ trig' = Touch(trig, hooks, r.hooks,
                        IF trig.event = event THEN {callback} ELSE {}, <<>>)
       /\ last' = [Did("hookUnregister", "", event, callback, r.ok)
                      EXCEPT !.prev = hooks[event].items]
       /\ UNCHANGED <<engine, registry, console>>

\* Hooks.clear(event)
HookClear(event) ==
    LET new == [hooks EXCEPT ![event] = NoHooks]
    IN /\ hooks' = new
       /\ trig' = Touch(trig, hooks, new,
                        IF trig.event = event
                        THEN {hooks[event].items[k].callback :
                                 k \in 1..Len(hooks[event].items)}
                        ELSE {},
                        hooks[event].items)
       /\ last' = [Did("hookClear", "", event, "", TRUE)
                      EXCEPT !.prev = hooks[event].items]
       /\ UNCHANGED <<engine, registry, console>>

\* Hooks.getHooks(event): Object.freeze(this.hooks.get(event) || []) freezes
\* the event's own array and returns it.
GetHooks(event) ==
    /\ hooks' = [hooks EXCEPT ![event].frozen = hooks[event].present]
    /\ last' = [Did("getHooks", "", event, "", TRUE)
                   EXCEPT !.list = hooks[event].items]
    /\ UNCHANGED <<engine, registry, trig, console>>

\* Hooks.hasHooks(event)
HasHooks(event) == hooks[event].present /\ Len(hooks[event].items) > 0

\* The array a trigger iterates.
TrigItems(t, hs) == IF t.detached THEN t.items ELSE hs[t.event].items

\* What the callback of a hook does to the map when it is invoked.
CallbackEffect(hs, event, callback) ==
    CASE callback = "selfUnreg" -> UnregisterHooks(hs, event, callback).hooks
      [] callback = "adder" /\ Len(hs[event].items) < MaxHooks ->
            RegisterHooks(hs, event, "plain", 20).hooks
      [] OTHER -> hs

\* trigger, lines 40-42, one turn of the loop: the array iterator yields
\* the element at its index if the array is that long now, the callback is
\* invoked and awaited; otherwise the loop and the call end.
Turn(t, hs) ==
    IF t.i < Len(TrigItems(t, hs))
    THEN LET hook == TrigItems(t, hs)[t.i + 1]
             new == CallbackEffect(hs, hook.name, hook.callback)
             called == [t EXCEPT !.i = @ + 1, !.busy = hook.callback,
                                 !.ran = Append(@, [what |-> "call",
                                                    name |-> hook.name,
                                                    callback |-> hook.callback,
                                                    priority |-> hook.priority])]
         IN [hooks |-> new,
             trig |-> Touch(called, hs, new,
                            IF hook.callback = "selfUnreg"
                            THEN {hook.callback} ELSE {}, <<>>)]
    ELSE [hooks |-> hs, trig |-> [t EXCEPT !.active = FALSE, !.done = TRUE]]

\* trigger, lines 37-42: the event's array is looked up once; without an
\* entry the call returns, otherwise the loop takes its first turn.
TriggerStart(event) ==
    LET t == [NoTrigger EXCEPT !.event = event, !.active = TRUE,
                               !.start = hooks[event].items]
    IN /\ ~trig.active /\ ~trig.done
       /\ IF hooks[event].present
          THEN /\ hooks' = Turn(t, hooks).hooks
               /\ trig' = Turn(t, hooks).trig
          ELSE /\ trig' = [t EXCEPT !.active = FALSE, !.done = TRUE]
               /\ UNCHANGED hooks
       /\ last' = Did("trigger", "", event, "", TRUE)
       /\ UNCHANGED <<engine, registry, console>>

\* trigger, lines 42-45 and 40-42: the awaited callback completes, what it
\* threw or rejected with is caught and logged, and the loop takes its next
\* turn.
TriggerResume ==
    LET t == [trig EXCEPT !.busy = "",
                          !.ran = Append(@, [what |->
                                     IF trig.busy \in {"thrower", "rejecter"}
                                     THEN "caught" ELSE "returned",
                                  name |-> trig.event,
                                  callback |-> trig.busy,
                                  priority |-> 0])]
    IN /\ trig.active /\ trig.busy # ""
       /\ hooks' = Turn(t, hooks).hooks
       /\ trig' = Turn(t, hooks).trig
       /\ last' = Did("resume", "", trig.event, trig.busy, TRUE)
       /\ UNCHANGED <<engine, registry, console>>

\* ---------------------------------------------------------------- Server

\* this.minecraftServer?.isRunning()
IsRunning(o) ==
    minecraftServer[o] # 0 /\ minecraft[minecraftServer[o]].running

\* Server.createServer(options): the constructor registers the new object
\* under its name, and the object replaces the name's cache entry.
CreateServer(o, name) ==
    /\ options[o] = ""
    /\ options' = [options EXCEPT ![o] = name]
    /\ serverCache' = [serverCache EXCEPT ![name] = o]
    /\ Register(o, name)
    /\ UNCHANGED <<minecraftServer, minecraft, runningServers, calls>>

\* A call of an async method that went on to its first await.
Suspend(kind, o, pc) == Append(calls, [kind |-> kind, o |-> o, pc |-> pc])

\* What the steps of a call leave alone besides the registry.
CallFrame == <<engine, trip, hooks, trig, options, serverCache>>

\* startServer, lines 367-374: the call throws when the MinecraftServer is
\* running, otherwise it runs up to the await inside initialize().
StartServer(o) ==
    /\ options[o] # "" /\ Len(calls) < MaxCalls
    /\ calls' = IF IsRunning(o) THEN calls
                ELSE Suspend("start", o, "initialize")
    /\ last' = Did("startServer", o, "", "", ~IsRunning(o))
    /\ UNCHANGED <<CallFrame, registry, minecraftServer, minecraft,
                   runningServers>>

\* stopServer, lines 427-432: the call returns when the MinecraftServer is
\* not running, otherwise it runs up to the await of server:beforeStop.
StopServer(o) ==
    /\ options[o] # "" /\ Len(calls) < MaxCalls
    /\ calls' = IF IsRunning(o) THEN Suspend("stop", o, "beforeStop")
                ELSE calls
    /\ last' = Did("stopServer", o, "", "", TRUE)
    /\ UNCHANGED <<CallFrame, registry, minecraftServer, minecraft,
                   runningServers>>

\* The calls in progress after call k moved to its next await, or ended.
MoveTo(k, pc) == [calls EXCEPT ![k].pc = pc]
Ended(k) == SubSeq(calls, 1, k - 1) \o SubSeq(calls, k + 1, Len(calls))

\* A step that only moves call k from one await to the next.
Await(k, kind, from, to) ==
    /\ calls[k].kind = kind /\ calls[k].pc = from
    /\ calls' = IF to = "" THEN Ended(k) ELSE MoveTo(k, to)
    /\ last' = Did("resume", calls[k].o, from, "", TRUE)
    /\ UNCHANGED <<CallFrame, registry, minecraftServer, minecraft,
                   runningServers>>

\* startServer, lines 375-389: a new MinecraftServer is created and started,
\* stored in this.minecraftServer, and the Server is entered in
\* runningServers; the call then awaits server:afterStart.
StartMinecraft(k) ==
    LET o == calls[k].o
    IN /\ calls[k].kind = "start" /\ calls[k].pc = "beforeStart"
       /\ Len(minecraft) < MaxMinecraft
       /\ minecraft' = Append(minecraft, [owner |-> o, running |-> TRUE])
       /\ minecraftServer' = [minecraftServer EXCEPT ![o] = Len(minecraft) + 1]
       /\ runningServers' = [runningServers EXCEPT ![options[o]] = o]
       /\ calls' = MoveTo(k, "afterStart")
       /\ last' = Did("start", o, "beforeStart", "", TRUE)
       /\ UNCHANGED <<CallFrame, registry>>

\* stopServer, lines 434-437: this.minecraftServer.stop() (a TypeError that
\* ends the call when the field is null by now), the name leaves
\* runningServers, the field is set to null, and saveOnly() is awaited.
StopMinecraft(k) ==
    LET o == calls[k].o
    IN /\ calls[k].kind = "stop" /\ calls[k].pc = "beforeStop"
       /\ IF minecraftServer[o] = 0
          THEN /\ calls' = Ended(k)
               /\ last' = Did("stop", o, "beforeStop", "", FALSE)
               /\ UNCHANGED <<minecraft, minecraftServer, runningServers>>
          ELSE /\ minecraft' =
                     [minecraft EXCEPT ![minecraftServer[o]].running = FALSE]
               /\ runningServers' = [runningServers EXCEPT ![options[o]] = ""]
               /\ minecraftServer' = [minecraftServer EXCEPT ![o] = 0]
               /\ calls' = MoveTo(k, "saveInitialize")
               /\ last' = Did("stop", o, "beforeStop", "", TRUE)
       /\ UNCHANGED <<CallFrame, registry>>

\* stopServer, lines 439-442: after saveOnly() the name is unregistered
\* from the registry and server:afterStop is awaited.
StopUnregister(k) ==
    /\ calls[k].kind = "stop" /\ calls[k].pc = "save"
    /\ Unregister("Server", options[calls[k].o])
    /\ calls' = MoveTo(k, "afterStop")
    /\ UNCHANGED <<options, serverCache, minecraftServer, minecraft,
                   runningServers>>

\* -------------------------------------------------------- specifications

\* Spec: two Server instances, extensions that inject, remove, clear and
\* list interceptions on them in any order, and callers of the method.
EngineChoices == {<<"noop", "before">>, <<"pass", "around">>}

DoInject ==
    \E target \in Servers, method \in Members, c \in EngineChoices :
        /\ Len(ListOf(GetInjectionKey(target, method))) < MaxPoints
        /\ Inject(target, method, c[1], c[2], 10)
        /\ UNCHANGED <<trip, registry, app>>

DoRemoveInjection ==
    \E target \in Servers, c \in EngineChoices :
        RemoveInjection(target, "run", c[1]) /\ UNCHANGED <<trip, registry, app>>

DoClearInjections ==
    \E target \in Servers : ClearInjections(target, "run") /\ UNCHANGED <<trip, registry, app>>

DoClearAll ==
    \E target \in Servers \cup {""} :
        ClearAllInjections(target) /\ UNCHANGED <<trip, registry, app>>

DoGetInjections ==
    \E target \in Servers : GetInjections(target, "run") /\ UNCHANGED <<trip, registry, app>>

DoCall == \E target \in Servers : Call(target, "run", 1) /\ UNCHANGED <<trip, registry, app>>

Next ==
    \/ DoInject
    \/ DoRemoveInjection
    \/ DoClearInjections
    \/ DoClearAll
    \/ DoGetInjections
    \/ DoCall

Spec == Init /\ [][Next]_vars

\* SpecChain and SpecAround: one object whose method gets a list of points
\* drawn from a set of callbacks, and is then called.
ChainChoices ==
    ({"noop", "thrower", "mutator"} \X {"before"})
        \cup ({"noop", "thrower", "returner"} \X {"after"})
        \cup ({"pass", "returner"} \X {"around"})

AroundChoices ==
    ({"pass", "passWith", "passThrow", "mutPass", "thrower", "returner"}
        \X {"around"})
        \cup {<<"noop", "before">>, <<"noop", "after">>}

ChainInject(choices) ==
    \E c \in choices, priority \in Priorities :
        /\ Len(ListOf(GetInjectionKey("s1", "run"))) < MaxChain
        /\ Inject("s1", "run", c[1], c[2], priority)
        /\ UNCHANGED <<trip, registry, app>>

ChainCall ==
    \E arg \in ArgValues : Call("s1", "run", arg) /\ UNCHANGED <<trip, registry, app>>

NextChain ==
    \/ ChainInject(ChainChoices)
    \/ ChainCall

SpecChain == Init /\ [][NextChain]_vars

NextAround ==
    \/ ChainInject(AroundChoices)
    \/ ChainCall

SpecAround == Init /\ [][NextAround]_vars

\* SpecSteps: up to MaxSteps engine operations, in any order, on the method
\* of the two Server instances.
Step ==
    /\ trip.n < MaxSteps
    /\ trip' = [trip EXCEPT !.n = @ + 1]
    /\ UNCHANGED <<registry, app>>

StepInject ==
    \E target \in Servers, c \in EngineChoices :
        /\ Len(ListOf(GetInjectionKey(target, "run"))) < MaxChain
        /\ Inject(target, "run", c[1], c[2], 10)
        /\ Step

StepRemoveInjection ==
    \E target \in Servers, c \in EngineChoices :
        RemoveInjection(target, "run", c[1]) /\ Step

StepClearInjections ==
    \E target \in Servers : ClearInjections(target, "run") /\ Step

StepClearAll == ClearAllInjections("") /\ Step

StepGetInjections ==
    \E target \in Servers : GetInjections(target, "run") /\ Step

NextSteps ==
    \/ StepInject
    \/ StepRemoveInjection
    \/ StepClearInjections
    \/ StepClearAll
    \/ StepGetInjections

SpecSteps == Init /\ [][NextSteps]_vars

\* SpecLive: one object whose method gets points, some of whose callbacks
\* inject or remove points of the same method while they run, and is called.
LiveChoices ==
    {<<"noop", "before">>, <<"noop", "after">>, <<"remover", "before">>,
     <<"remover", "after">>, <<"injector", "around">>}

LiveInject ==
    \E c \in LiveChoices, priority \in Priorities :
        /\ Len(ListOf(GetInjectionKey("s1", "run"))) < MaxChain
        /\ Inject("s1", "run", c[1], c[2], priority)
        /\ UNCHANGED <<trip, registry, app>>

LiveRun == LiveCall("s1", "run", 1) /\ UNCHANGED <<trip, registry, app>>

NextLive ==
    \/ LiveInject
    \/ LiveRun

SpecLive == Init /\ [][NextLive]_vars

\* SpecHooks: plugins registering, unregistering, listing and clearing hooks
\* (up to MaxHookOps operations) around one trigger of an event, the
\* operations of other tasks running while the trigger awaits a callback.
HookChoices(event) ==
    IF event = "start"
    THEN {<<"plain", 5>>, <<"plain", 10>>, <<"thrower", 10>>,
          <<"rejecter", 10>>, <<"selfUnreg", 10>>, <<"adder", 5>>}
    ELSE {<<"plain", 10>>}

HookStep ==
    /\ trip.n < MaxHookOps
    /\ trip' = [trip EXCEPT !.n = @ + 1]

DoHookRegister ==
    \E event \in Events :
        \E c \in HookChoices(event) :
            /\ Len(hooks[event].items) < MaxHooks
            /\ HookRegister(event, c[1], c[2])
            /\ HookStep

DoHookUnregister ==
    \E event \in Events :
        \E c \in HookChoices(event) :
            HookUnregister(event, c[1]) /\ HookStep

DoHookClear == \E event \in Events : HookClear(event) /\ HookStep

DoGetHooks == \E event \in Events : GetHooks(event) /\ HookStep

DoTrigger == \E event \in Events : TriggerStart(event) /\ UNCHANGED trip

DoResume == TriggerResume /\ UNCHANGED trip

NextHooks ==
    \/ DoHookRegister
    \/ DoHookUnregister
    \/ DoHookClear
    \/ DoGetHooks
    \/ DoTrigger
    \/ DoResume

SpecHooks == Init /\ [][NextHooks]_vars

\* SpecConsole: commands creating Server objects under names and starting and
\* stopping them; a command runs while the calls of earlier commands are
\* suspended at their awaits.
DoCreateServer == \E o \in Servers, name \in Ids : CreateServer(o, name)

DoStartServer == \E o \in Servers : StartServer(o)

DoStopServer == \E o \in Servers : StopServer(o)

\* The awaits of initialize() and of the hooks of startServer, and those of
\* saveOnly() and of the hooks of stopServer.
DoAwait ==
    \E k \in 1..Len(calls) :
        \/ Await(k, "start", "initialize", "beforeStart")
        \/ Await(k, "start", "afterStart", "")
        \/ Await(k, "stop", "saveInitialize", "saveList")
        \/ Await(k, "stop", "saveList", "save")
        \/ Await(k, "stop", "afterStop", "")

DoStartMinecraft == \E k \in 1..Len(calls) : StartMinecraft(k)

DoStopMinecraft == \E k \in 1..Len(calls) : StopMinecraft(k)

DoStopUnregister == \E k \in 1..Len(calls) : StopUnregister(k)

NextConsole ==
    \/ DoCreateServer
    \/ DoStartServer
    \/ DoStopServer
    \/ DoAwait
    \/ DoStartMinecraft
    \/ DoStopMinecraft
    \/ DoStopUnregister

SpecConsole == Init /\ [][NextConsole]_vars

\* SpecRegistry: the application registering and unregistering its objects
\* under ids, and clearing the registry, in any order.
DoRegister ==
    \E instance \in Objs, id \in Ids :
        Register(instance, id) /\ UNCHANGED console

DoUnregister ==
    \E className \in Classes, id \in Ids :
        Unregister(className, id) /\ UNCHANGED console

DoClearRegistry == ClearRegistry /\ UNCHANGED console

NextRegistry ==
    \/ DoRegister
    \/ DoUnregister
    \/ DoClearRegistry

SpecRegistry == Init /\ [][NextRegistry]_vars

\* SpecPlain: extensions that inject, remove and clear interceptions on the
\* members of the two object literals, and callers of p1.run.
PlainInject ==
    \E target \in Plain, method \in Members, c \in EngineChoices :
        /\ Len(ListOf(GetInjectionKey(target, method))) < MaxPoints
        /\ Inject(target, method, c[1], c[2], 10)
        /\ UNCHANGED <<trip, registry, app>>

PlainRemoveInjection ==
    \E target \in Plain, c \in EngineChoices :
        RemoveInjection(target, "run", c[1]) /\ UNCHANGED <<trip, registry, app>>

PlainClearInjections ==
    \E target \in Plain : ClearInjections(target, "run") /\ UNCHANGED <<trip, registry, app>>

PlainCall == \E arg \in ArgValues : Call("p1", "run", arg) /\ UNCHANGED <<trip, registry, app>>

NextPlain ==
    \/ PlainInject
    \/ PlainRemoveInjection
    \/ PlainClearInjections
    \/ PlainCall

SpecPlain == Init /\ [][NextPlain]_vars

\* SpecKinds: one object whose method gets points of the three kinds under
\* three priorities, the around points logging after they proceeded.
KindPriorities == {5, 10, 20}

KindChoices ==
    {<<"noop", "before">>, <<"passLog", "around">>, <<"noop", "after">>}

KindInject ==
    \E c \in KindChoices, priority \in KindPriorities :
        /\ Len(ListOf(GetInjectionKey("s1", "run"))) < MaxChain
        /\ Inject("s1", "run", c[1], c[2], priority)
        /\ UNCHANGED <<trip, registry, app>>

NextKinds ==
    \/ KindInject
    \/ ChainCall

SpecKinds == Init /\ [][NextKinds]_vars

\* SpecTrip: from any state the engine is brought to by up to MaxFree
\* operations on the two instances, one round trip on a key without points:
\* injects on (o, m), then removeInjection calls until the list is empty,
\* then one more inject.
TripFree ==
    /\ trip.phase = "free"
    /\ trip.n < MaxFree
    /\ trip' = [trip EXCEPT !.n = @ + 1]
    /\ UNCHANGED <<registry, app>>
    /\ \E target \in Servers, c \in EngineChoices :
          \/ /\ Len(ListOf(GetInjectionKey(target, "run"))) < MaxPoints
             /\ Inject(target, "run", c[1], c[2], 10)
          \/ RemoveInjection(target, "run", c[1])
          \/ ClearInjections(target, "run")
          \/ ClearAllInjections(target)

TripBegin ==
    \E o \in Servers :
        /\ trip.phase = "free"
        /\ ListOf(GetInjectionKey(o, "run")) = <<>>
        /\ trip' = [phase |-> "inject", o |-> o, m |-> "run",
                    pre |-> installed[o]["run"], n |-> 0]
        /\ last' = Did("begin", o, "run", "", TRUE)
        /\ UNCHANGED <<installed, arrays, wraps, injections, originalMethods,
                       registry, app>>

TripInject ==
    \E c \in EngineChoices, priority \in Priorities :
        /\ trip.phase = "inject"
        /\ Len(ListOf(GetInjectionKey(trip.o, trip.m))) < MaxPoints
        /\ Inject(trip.o, trip.m, c[1], c[2], priority)
        /\ UNCHANGED <<trip, registry, app>>

TripTurn ==
    /\ trip.phase = "inject"
    /\ ListOf(GetInjectionKey(trip.o, trip.m)) # <<>>
    /\ trip' = [trip EXCEPT !.phase = "remove"]
    /\ UNCHANGED <<installed, arrays, wraps, injections, originalMethods, last,
                   registry, app>>

TripRemove ==
    \E c \in EngineChoices :
        /\ trip.phase = "remove"
        /\ RemoveInjection(trip.o, trip.m, c[1])
        /\ trip' = [trip EXCEPT !.phase =
                       IF Len(ListOf(GetInjectionKey(trip.o, trip.m))) = 1
                          /\ FindIndex(ListOf(GetInjectionKey(trip.o, trip.m)),
                                       c[1]) = 1
                       THEN "done" ELSE "remove"]
        /\ UNCHANGED <<registry, app>>

TripAgain ==
    \E c \in EngineChoices, priority \in Priorities :
        /\ trip.phase = "done"
        /\ Inject(trip.o, trip.m, c[1], c[2], priority)
        /\ trip' = [trip EXCEPT !.phase = "again"]
        /\ UNCHANGED <<registry, app>>

NextTrip ==
    \/ TripFree
    \/ TripBegin
    \/ TripInject
    \/ TripTurn
    \/ TripRemove
    \/ TripAgain

SpecTrip == Init /\ [][NextTrip]_vars

\* ---------------------------------------------------------------- claims

TripKey == GetInjectionKey(trip.o, trip.m)

\* C1: a round trip on a key without points (injects on (o, m), then
\* removeInjection calls until every point is gone) leaves o[m] the very
\* function it held before the first inject, with no list and no stored
\* original for the key; the next inject on (o, m) stores the function then
\* installed as the new original.
C1_RoundTripRestores ==
    /\ trip.phase = "done" =>
          /\ installed[trip.o][trip.m] = trip.pre
          /\ ~HasList(TripKey)
          /\ ~HasOriginal(TripKey)
    /\ (trip.phase = "again" /\ last.ok) =>
          /\ originalMethods[TripKey] = trip.pre
          /\ ListOf(TripKey) = <<last.point>>

\* A round trip on an object whose method was a dispatcher left behind by an
\* earlier cycle has completed.
C1_Witness ==
    /\ trip.phase = "done"
    /\ trip.pre.wrap
    /\ last.op = "removeInjection" /\ Len(last.prev) = 1

\* C2: for every object and method, the installed function is the original
\* exactly when the list getInjections gives for that object and method is
\* empty, and is a dispatcher otherwise.
C2_OriginalIffNoPoints ==
    \A o \in Servers :
        /\ installed[o]["run"] = Pristine(o, "run")
              <=> ListOf(GetInjectionKey(o, "run")) = <<>>
        /\ ListOf(GetInjectionKey(o, "run")) # <<>> => installed[o]["run"].wrap

\* C3: a call of m on an object runs only callbacks of points injected on
\* that object, and getInjections on an object lists only such points.
C3_PointsStayOnTheirObject ==
    /\ last.op = "call" =>
          \A k \in 1..Len(last.out.tr) :
              last.out.tr[k].what # "original" =>
                  arrays[last.out.tr[k].arr].items[last.out.tr[k].idx].target
                      = last.target
    /\ last.op = "getInjections" =>
          \A k \in 1..Len(last.list) : last.list[k].target = last.target


\* The list of s1.run, and the dispatcher of s1.run run on another list.
Items == ListOf(GetInjectionKey("s1", "run"))
Replay(items, arg) == Wrapped(1, items, Pristine("s1", "run"), "s1", arg)
Called == last.op = "call"
Trace == last.out.tr
SameResult(a, b) == a.st = b.st /\ a.val = b.val /\ a.err = b.err

\* The events of the points of one kind, and of the original.
EventsOf(tr, what) == SelectSeq(tr, LAMBDA e : e.what = what)

\* C4: when the original throws and every around point calls proceed(), the
\* caller gets the original's error and the original ran once.
C4_OriginalErrorOnce ==
    (/\ Called
     /\ last.arg = 0
     /\ \A i \in 1..Len(Items) :
            Items[i].type = "around" => Items[i].callback = "pass")
        => /\ last.out.st = "err"
           /\ last.out.err = "original"
           /\ Len(EventsOf(Trace, "original")) = 1

\* The before and after points that throw or return a value, made silent.
Calm(items) ==
    [i \in 1..Len(items) |->
        IF items[i].type \in {"before", "after"}
           /\ items[i].callback \in {"thrower", "returner"}
        THEN [items[i] EXCEPT !.callback = "noop"]
        ELSE items[i]]

Anonymous(tr) == [k \in 1..Len(tr) |-> [tr[k] EXCEPT !.cb = ""]]

RunsOnce(tr, what, i) ==
    Cardinality({k \in 1..Len(tr) : tr[k].what = what /\ tr[k].idx = i}) = 1

\* C5: a before or after callback that throws, or returns a value, changes
\* nothing else: the call has the result and runs the callbacks and the
\* original exactly as with that callback silent; every before point runs
\* once, every after point runs once when the call returns, and the original
\* runs unless an around point short-circuits it.
C5_BeforeAfterIsolated ==
    Called =>
        /\ SameResult(last.out, Replay(Calm(Items), last.arg))
        /\ Anonymous(Trace) = Anonymous(Replay(Calm(Items), last.arg).tr)
        /\ \A i \in 1..Len(Items) :
              /\ Items[i].type = "before" => RunsOnce(Trace, "before", i)
              /\ (Items[i].type = "after" /\ last.out.st = "ok")
                    => RunsOnce(Trace, "after", i)
        /\ (\A i \in 1..Len(Items) : Items[i].type # "around")
              => Len(EventsOf(Trace, "original")) = 1

\* A call that returned although a before and an after callback threw.
C5_Witness ==
    /\ Called /\ last.out.st = "ok" /\ Len(Items) = 3
    /\ \E i, j, k \in 1..Len(Items) :
          /\ Items[i].type = "before" /\ Items[i].callback = "thrower"
          /\ Items[j].type = "after" /\ Items[j].callback = "thrower"
          /\ Items[k].type = "after" /\ Items[k].callback = "noop" /\ j < k

Without(items, cbs) ==
    SelectSeq(items, LAMBDA p : ~(p.type = "around" /\ p.callback \in cbs))

\* A trace without the events of the given around callbacks, positions blanked.
Hide(tr, cbs) ==
    LET kept == SelectSeq(tr, LAMBDA e : ~(e.what = "around" /\ e.cb \in cbs))
    IN [k \in 1..Len(kept) |-> [kept[k] EXCEPT !.idx = 0]]

\* C6: an around callback that throws is skipped and nothing more: the call
\* has the result of the chain without that layer, run with the arguments
\* the layer received, and (when the layer threw before it proceeded) runs
\* just what the chain without that layer runs.
C6_ThrowingAroundSkipped ==
    Called =>
        /\ SameResult(last.out,
                      Replay(Without(Items, {"thrower", "passThrow"}), last.arg))
        /\ Hide(Trace, {"thrower"})
              = Hide(Replay(Without(Items, {"thrower"}), last.arg).tr, {})

\* A call that returned through a throwing layer with a layer inside it and
\* a layer outside it.
C6_Witness ==
    /\ Called /\ last.out.st = "ok" /\ Len(Items) = 3
    /\ Items[1].type = "around" /\ Items[1].callback = "mutPass"
    /\ Items[2].type = "around" /\ Items[2].callback = "thrower"
    /\ Items[3].type = "around" /\ Items[3].callback = "pass"

\* C7: when every around point calls proceed(), the around points are
\* entered in descending priority order, the first with the caller's
\* arguments, and the original runs last.
C7_HighestPriorityOutermost ==
    (/\ Called /\ last.arg = 1
     /\ \A i \in 1..Len(Items) :
            Items[i].type = "around" /\ Items[i].callback = "pass")
        => /\ \A k, l \in 1..Len(Trace) :
                 (k < l /\ Trace[k].what = "around" /\ Trace[l].what = "around")
                    => Items[Trace[k].idx].priority
                          >= Items[Trace[l].idx].priority
           /\ Trace[1].arg = last.arg
           /\ Trace[Len(Trace)].what = "original"

\* C8 as stated: the link after an around callback that calls proceed(3)
\* is invoked with 3.
C8_ProceedForwardsChosen ==
    Called =>
        \A k \in 1..(Len(Trace) - 1) :
            (Trace[k].what = "around" /\ Trace[k].cb = "passWith")
                => Trace[k + 1].arg = 3

\* C8 amended: proceed forwards the link's own argument array as it stands
\* when proceed is called: the values the link received, or what the
\* callback wrote into context.args; what is passed to proceed is ignored.
C8_ProceedForwardsOwnArgs ==
    Called =>
        \A k \in 1..(Len(Trace) - 1) :
            /\ (Trace[k].what = "around"
                    /\ Trace[k].cb \in {"pass", "passWith", "passThrow"})
                  => Trace[k + 1].arg = Trace[k].arg
            /\ (Trace[k].what = "around" /\ Trace[k].cb = "mutPass")
                  => Trace[k + 1].arg = 2

\* A call in which one layer passed 3 to proceed and another wrote into its
\* args, and the original ran.
C8_Witness ==
    /\ Called /\ last.out.st = "ok" /\ last.arg = 1
    /\ \E k, l \in 1..Len(Trace) :
          /\ Trace[k].what = "around" /\ Trace[k].cb = "passWith"
          /\ Trace[l].what = "around" /\ Trace[l].cb = "mutPass"
    /\ EventsOf(Trace, "original") # <<>>

\* The outermost around point that returns without calling proceed: the
\* chain is folded in list order, so it is the last such point of the list.
Skipper ==
    CHOOSE i \in 1..Len(Items) :
        /\ Items[i].type = "around" /\ Items[i].callback = "returner"
        /\ \A j \in (i + 1)..Len(Items) :
              ~(Items[j].type = "around" /\ Items[j].callback = "returner")

HasSkipper ==
    \E i \in 1..Len(Items) :
        Items[i].type = "around" /\ Items[i].callback = "returner"

\* C9: when an around point returns 7 without calling proceed, neither the
\* original nor any layer inside that point runs, the call returns 7 and
\* every after point is handed 7.
C9_ShortCircuit ==
    (Called /\ HasSkipper) =>
        /\ EventsOf(Trace, "original") = <<>>
        /\ \A k \in 1..Len(Trace) :
              /\ Trace[k].what = "around" => Trace[k].idx >= Skipper
              /\ Trace[k].what = "after" => Trace[k].res = 7
        /\ last.out.st = "ok" /\ last.out.val = 7

\* A call short-circuited by a layer that has a layer inside it, with an
\* after point attached.
C9_Witness ==
    /\ Called /\ HasSkipper /\ Skipper > 1 /\ Len(Items) = 3
    /\ Items[Skipper - 1].type = "around"
    /\ Items[Skipper - 1].callback = "pass"
    /\ EventsOf(Trace, "after") # <<>>

\* C10: the list is always in descending priority order; an inject puts the
\* new point behind every point of equal or higher priority and ahead of the
\* lower ones, the others keeping their order; and a call runs the before
\* points in list order.
C10_PriorityOrder ==
    /\ \A i, j \in 1..Len(Items) :
          i < j => Items[i].priority >= Items[j].priority
    /\ (last.op = "inject" /\ last.ok) =>
          \E k \in 1..Len(Items) :
              /\ Items[k] = last.point
              /\ Splice(Items, k) = last.prev
              /\ \A i \in 1..(k - 1) : Items[i].priority >= last.point.priority
              /\ \A i \in (k + 1)..Len(Items) :
                    Items[i].priority < last.point.priority
    /\ Called =>
          [k \in 1..Len(EventsOf(Trace, "before")) |->
              EventsOf(Trace, "before")[k].idx] = IndicesOf(Items, "before")

\* A call that ran three before points of both priorities.
C10_Witness ==
    /\ Called /\ Len(EventsOf(Trace, "before")) = 3
    /\ Items[1].priority = 10 /\ Items[2].priority = 10
    /\ Items[3].priority = 5
    /\ Items[1].callback # Items[2].callback

\* The kinds of the events of a trace, in order.
Whats(tr) == [k \in 1..Len(tr) |-> tr[k].what]

\* C11: in every call all before points run first, then the around chain
\* and the original, then (when the call returns) all after points, whatever
\* the priorities across kinds; a before, an around that logs after
\* proceed() and an after give before, original, log, after under every
\* assignment of priorities.
C11_KindsInPhases ==
    Called =>
        /\ \A k, l \in 1..Len(Trace) :
              k < l => /\ Trace[l].what = "before" => Trace[k].what = "before"
                       /\ Trace[k].what = "after" => Trace[l].what = "after"
        /\ \A i \in 1..Len(Items) :
              /\ Items[i].type = "before" => RunsOnce(Trace, "before", i)
              /\ (Items[i].type = "after" /\ last.out.st = "ok")
                    => RunsOnce(Trace, "after", i)
        /\ (/\ last.out.st = "ok" /\ Len(Items) = 3
            /\ {Items[i].type : i \in 1..3} = {"before", "around", "after"})
              => Whats(Trace)
                    = <<"before", "around", "original", "log", "after">>

\* A call under priorities opposite to the phases: the after point has the
\* highest priority and the before point the lowest.
C11_Witness ==
    /\ Called /\ last.out.st = "ok" /\ Len(Items) = 3
    /\ Items[1].type = "after" /\ Items[1].priority = 20
    /\ Items[2].type = "around" /\ Items[2].priority = 10
    /\ Items[3].type = "before" /\ Items[3].priority = 5
    /\ Whats(Trace) = <<"before", "around", "original", "log", "after">>

\* C12: with no around point in the list, the original runs exactly once,
\* with the caller's receiver and the argument the caller passed, whatever
\* the before callbacks do with their context, and the caller gets exactly
\* what the original returns or throws.
C12_TransparentWithoutAround ==
    (Called /\ \A i \in 1..Len(Items) : Items[i].type # "around") =>
        /\ Len(EventsOf(Trace, "original")) = 1
        /\ EventsOf(Trace, "original")[1].recv = last.target
        /\ EventsOf(Trace, "original")[1].arg = last.arg
        /\ SameResult(last.out,
                      OriginalCall(Pristine("s1", "run"), last.target, last.arg))

\* C13: an inject on a member that is not a function throws and changes
\* nothing: no list, stored original, array, dispatcher or installed member
\* changes, for any key, whether or not the key already holds points.
C13_FailedInjectChangesNothing ==
    [][(last'.op = "inject"
          /\ ~IsFunction(installed[last'.target][last'.method]))
        => /\ ~last'.ok
           /\ UNCHANGED <<installed, arrays, wraps, injections,
                          originalMethods>>]_vars

\* The step is the given operation on target[method].
IsOp(op, target, method) ==
    last'.op = op /\ last'.target = target /\ last'.method = method

\* A list with its k-th point left out.
Omit(items, k) ==
    [i \in 1..(Len(items) - 1) |-> IF i < k THEN items[i] ELSE items[i + 1]]

\* What C14 says of a removeInjection step on the key.
RemovedOne(key) ==
    /\ \/ ListOf(key)' = ListOf(key)
       \/ \E k \in 1..Len(ListOf(key)) :
             /\ ListOf(key)[k].callback = last'.cb
             /\ ListOf(key)' = Omit(ListOf(key), k)
    /\ ListOf(key)' # <<>> =>
          UNCHANGED <<installed, wraps, injections, originalMethods>>
    /\ \A other \in Keys \ {key} : ListOf(other)' = ListOf(other)
    /\ FindIndex(ListOf(key), last'.cb) = 0 => last'.ok /\ UNCHANGED engine

\* C14: removeInjection removes at most one point, one whose callback is the
\* given reference, the other points keeping their order, and while a point
\* remains neither the installed functions nor the stored original change;
\* when no point of the key has that callback, or the key has no points, it
\* changes nothing and throws nothing.
C14_RemovesOneMatchingPoint ==
    [][\A target \in Objs, method \in Members :
          IsOp("removeInjection", target, method)
              => RemovedOne(GetInjectionKey(target, method))]_vars

\* A removal from a list of three points that holds the callback twice.
C14_Witness ==
    /\ last.op = "removeInjection" /\ last.ok /\ Len(last.prev) = 3
    /\ last.prev[1].callback = last.cb /\ last.prev[3].callback = last.cb
    /\ ListOf(GetInjectionKey(last.target, last.method))
          = SubSeq(last.prev, 2, 3)
    /\ installed[last.target][last.method].wrap

\* What C15 says of a clearInjections step on target[method].
ClearedKey(target, method, key) ==
    /\ last'.ok
    /\ ~HasList(key)' /\ ~HasOriginal(key)'
    /\ HasList(key) =>
          /\ installed'[target][method] = originalMethods[key]
          /\ \A o \in Objs, m \in Members :
                <<o, m>> # <<target, method>>
                    => installed'[o][m] = installed[o][m]
    /\ ~HasList(key) => UNCHANGED engine
    /\ \A other \in Keys \ {key} :
          /\ injections'[other] = injections[other]
          /\ originalMethods'[other] = originalMethods[other]
    /\ UNCHANGED <<arrays, wraps>>

\* C15: clearInjections(target, method) on a key with points leaves the key
\* without list and without stored original and puts the stored original
\* back at target[method], touching no other member and no other key; on a
\* key without points, as on a second call in a row, it changes nothing; it
\* never throws.
C15_ClearKeyRestores ==
    [][\A target \in Objs, method \in Members :
          IsOp("clearInjections", target, method)
              => ClearedKey(target, method,
                            GetInjectionKey(target, method))]_vars

\* A clear of a key with two points that put the class's method back.
C15_Witness ==
    /\ last.op = "clearInjections" /\ Len(last.prev) = 2
    /\ installed[last.target][last.method]
          = Pristine(last.target, last.method)
    /\ ~HasList(GetInjectionKey(last.target, last.method))

\* C16: after clearInjections() every Server instance has its class's method
\* back, so that no call runs an interception callback, and the engine
\* holds no list and no stored original.
C16_ClearAllRestoresEverything ==
    last.op = "clearAll" =>
        /\ \A o \in Servers : installed[o]["run"] = Pristine(o, "run")
        /\ \A key \in Keys : ~HasList(key) /\ ~HasOriginal(key)

\* C17: the queries change nothing that a later operation can notice: an
\* inject or removeInjection on a method of a Server instance succeeds
\* whatever getInjections calls were made before it.
C17_QueriesLeaveOperationsAlone ==
    (last.op \in {"inject", "removeInjection"} /\ last.method = "run")
        => last.ok

\* The points the extensions of Spec can ask for.
EnginePoints ==
    {[target |-> t, method |-> "run", callback |-> c[1], type |-> c[2],
      priority |-> 10] : t \in Servers, c \in EngineChoices}

\* A call of target.run as things stand runs the point out of the key's
\* current list.
RunsPoint(target, point) ==
    LET tr == Invoke(installed[target]["run"], target, 1).tr
    IN \E k \in 1..Len(tr) :
          /\ tr[k].what # "original"
          /\ tr[k].arr = injections[GetInjectionKey(target, "run")]
          /\ arrays[tr[k].arr].items[tr[k].idx] = point

\* C18: an inject that succeeds on target.run while the key holds points and
\* target.run is a dispatcher leaves target.run the same function, and the
\* next call of target.run runs the added point.
C18_AddedPointJoinsNextCall ==
    [][\A target \in Servers, point \in EnginePoints :
          (/\ IsOp("inject", target, "run") /\ last'.ok
           /\ last'.point = point
           /\ ListOf(GetInjectionKey(target, "run")) # <<>>
           /\ installed[target]["run"].wrap)
              => /\ installed'[target]["run"] = installed[target]["run"]
                 /\ RunsPoint(target, point)']_vars

\* The kinds and callbacks of the events of a trace, in order.
Runs(tr) == [k \in 1..Len(tr) |-> <<tr[k].what, tr[k].cb>>]

\* The list after the edits of the callbacks of a trace, in order.
RECURSIVE Edited(_, _)
Edited(items, tr) ==
    IF tr = <<>>
    THEN items
    ELSE Edited(IF Head(tr).what = "original"
                THEN items
                ELSE Edit(Head(tr).cb, items, "s1", "run"),
                Tail(tr))

\* C19: a call runs exactly the callbacks, in exactly the order, that the
\* list it found when it started gives, whatever points its callbacks
\* inject or remove meanwhile; the edits are all in the list when the call
\* is over, where the next call finds them.
C19_DispatchOnSnapshot ==
    Called =>
        /\ Runs(Trace) = Runs(Replay(last.prev, last.arg).tr)
        /\ Items = Edited(last.prev, Trace)

\* A call in which a before callback removed a before point that was still
\* to run, and did run, and an around callback injected an after point that
\* did not run.
C19_Witness ==
    /\ Called
    /\ \E k, l \in 1..Len(Trace) :
          /\ k < l
          /\ Runs(Trace)[k] = <<"before", "remover">>
          /\ Runs(Trace)[l] = <<"before", "noop">>
    /\ \E k \in 1..Len(Trace) : Runs(Trace)[k] = <<"around", "injector">>
    /\ FilterType(last.prev, "after") = <<>>
    /\ Len(FilterType(Items, "after")) = 1
    /\ \A i \in 1..Len(Items) : Items[i].type # "before"
              \/ Items[i].callback # "noop"

\* The step is register(instance, id).
IsRegister(instance, id) ==
    last'.op = "register" /\ last'.target = instance /\ last'.id = id

\* How often a value occurs in a sequence.
Count(seq, v) == Cardinality({i \in 1..Len(seq) : seq[i] = v})

\* Every class entry but the given one is as it was.
OtherClassesUnchanged(className) ==
    \A c \in Classes \ {className} : IdMap(c)' = IdMap(c)

\* C20 as stated: after register(obj2, id) over obj, getInstance gives obj2,
\* getInstances holds obj2 once and does not hold obj, and the entries of
\* other ids and classes are unchanged.
C20_ReplacedObjectGone ==
    [][\A obj, obj2 \in Objs, id \in Ids :
          (/\ IsRegister(obj2, id) /\ obj # obj2
           /\ ClassName(obj) = ClassName(obj2)
           /\ GetInstance(ClassName(obj2), id) = obj)
              => /\ GetInstance(ClassName(obj2), id)' = obj2
                 /\ Count(GetInstances(ClassName(obj2))', obj2) = 1
                 /\ Count(GetInstances(ClassName(obj2))', obj) = 0
                 /\ \A other \in Ids \ {id} :
                       GetInstance(ClassName(obj2), other)'
                           = GetInstance(ClassName(obj2), other)
                 /\ OtherClassesUnchanged(ClassName(obj2))]_vars

\* C20 amended: the registry holds one entry per (class, id); register(obj2,
\* id) over obj puts obj2 where obj stood in the id map and changes no other
\* entry, so getInstance gives obj2 and getInstances holds obj2 for id once;
\* obj and obj2 are listed once more for every other id they are registered
\* under.
C20_OneObjectPerId ==
    [][/\ \A c \in Classes :
             \A i, j \in 1..Len(IdMap(c)') :
                 IdMap(c)'[i].id = IdMap(c)'[j].id => i = j
       /\ \A obj, obj2 \in Objs, id \in Ids :
             (/\ IsRegister(obj2, id) /\ obj # obj2
              /\ ClassName(obj) = ClassName(obj2)
              /\ GetInstance(ClassName(obj2), id) = obj)
                 => /\ GetInstance(ClassName(obj2), id)' = obj2
                    /\ IdMap(ClassName(obj2))' =
                          [IdMap(ClassName(obj2)) EXCEPT
                              ![PosOf(IdMap(ClassName(obj2)), "id", id)].obj
                                  = obj2]
                    /\ Count(GetInstances(ClassName(obj2))', obj)
                          = Count(GetInstances(ClassName(obj2)), obj) - 1
                    /\ Count(GetInstances(ClassName(obj2))', obj2)
                          = Count(GetInstances(ClassName(obj2)), obj2) + 1
                    /\ OtherClassesUnchanged(ClassName(obj2))]_vars

\* A register that replaced the first of the two entries of a class.
C20_Witness ==
    /\ last.op = "register" /\ Len(last.prev) = 2
    /\ last.prev[1].id = last.id /\ last.prev[1].obj # last.target
    /\ GetInstances(ClassName(last.target)) = <<last.target, last.prev[2].obj>>
    /\ last.prev[2].obj # last.target
    /\ Len(registry) = 2

\* The step is unregister(className, id).
IsUnregister(className, id) ==
    last'.op = "unregister" /\ last'.method = className /\ last'.id = id

\* The elements of a sequence.
Range(seq) == {seq[i] : i \in 1..Len(seq)}

\* The ids of a class in the order of its id map.
IdOrder(className) == [i \in 1..Len(IdMap(className)) |-> IdMap(className)[i].id]

\* C21: after every registry operation isInjectable(c), c being listed by
\* getAllClasses() and getInstances(c) being non-empty are the same thing;
\* unregister of the only id of a class removes the class, and unregister of
\* an absent (class, id) leaves the registry as it was and returns normally.
C21_ClassListedIffInstances ==
    [][/\ \A c \in Classes :
             /\ IsInjectable(c)' <=> c \in Range(GetAllClasses')
             /\ IsInjectable(c)' <=> GetInstances(c)' # <<>>
       /\ \A c \in Classes, id \in Ids :
             IsUnregister(c, id) =>
                /\ last'.ok
                /\ Range(IdOrder(c)) = {id} =>
                      /\ ~IsInjectable(c)'
                      /\ c \notin Range(GetAllClasses')
                /\ GetInstance(c, id) = "" => registry' = registry]_vars

\* An unregister that removed the only id of a class while the other class
\* stayed registered.
C21_Witness ==
    /\ last.op = "unregister" /\ Len(last.prev) = 1
    /\ last.prev[1].id = last.id
    /\ ~IsInjectable(last.method)
    /\ GetAllClasses = <<"Object">>
    /\ last.method = "Server"

\* C22: getInstances(c) lists the objects of the ids of c, one per id, in
\* the order of the id map; register over an id that is present keeps the
\* order of the ids, register of an id that is absent (never registered, or
\* unregistered before) puts it last, unregister takes the id out and keeps
\* the order of the others, and a class without instances gives the empty
\* sequence.
C22_InstancesInInsertionOrder ==
    [][/\ \A c \in Classes :
             /\ Len(GetInstances(c)') = Len(IdOrder(c)')
             /\ \A i \in 1..Len(IdOrder(c)') :
                   /\ \A id \in Ids :
                         IdOrder(c)'[i] = id =>
                            GetInstances(c)'[i] = GetInstance(c, id)'
                   /\ GetInstances(c)'[i] # ""
                   /\ \A j \in 1..Len(IdOrder(c)') :
                         IdOrder(c)'[i] = IdOrder(c)'[j] => i = j
             /\ \A id \in Ids :
                   GetInstance(c, id)' # "" => id \in Range(IdOrder(c)')
             /\ ~IsInjectable(c)' => GetInstances(c)' = <<>>
       /\ \A instance \in Objs, id \in Ids :
             IsRegister(instance, id) =>
                /\ IdOrder(ClassName(instance))' =
                      IF id \in Range(IdOrder(ClassName(instance)))
                      THEN IdOrder(ClassName(instance))
                      ELSE Append(IdOrder(ClassName(instance)), id)
                /\ GetInstance(ClassName(instance), id)' = instance
                /\ \A other \in Ids \ {id} :
                      GetInstance(ClassName(instance), other)'
                          = GetInstance(ClassName(instance), other)
       /\ \A c \in Classes, id \in Ids :
             IsUnregister(c, id) =>
                /\ IdOrder(c)' = SelectSeq(IdOrder(c), LAMBDA x : x # id)
                /\ \A other \in Ids \ {id} :
                      GetInstance(c, other)' = GetInstance(c, other)]_vars

\* A register over the first of two ids, the new object listed first and
\* the id order as it was.
C22_Witness ==
    /\ last.op = "register" /\ Len(last.prev) = 2
    /\ last.prev[1].id = last.id /\ last.prev[1].obj # last.target
    /\ IdOrder(ClassName(last.target)) = <<last.id, last.prev[2].id>>
    /\ GetInstances(ClassName(last.target))[1] = last.target
    /\ last.id = "a"

\* The points of a list that were injected through the given object.
PointsOf(items, o) == SelectSeq(items, LAMBDA p : p.target = o)

\* C23: clearInjections(target) without a method name leaves every other
\* object alone: each of its members holds the function it held, and the
\* points injected through it are listed as they were.
C23_TargetOnlyClearKeepsOthers ==
    [][\A target \in Servers :
          (last'.op = "clearAll" /\ last'.target = target) =>
              \A o \in Objs \ {target}, m \in Members :
                  /\ installed'[o][m] = installed[o][m]
                  /\ PointsOf(ListOf(GetInjectionKey(o, m))', o)
                        = PointsOf(ListOf(GetInjectionKey(o, m)), o)]_vars

\* C25: a call of the wrapped method invokes the original at most once (no
\* around callback of AroundChoices calls proceed() more than once).
C25_OriginalAtMostOnce ==
    Called => Len(EventsOf(Trace, "original")) <= 1

\* C26: a call of o.run made while hasInjections(o, 'run') is false runs no
\* interception callback: only the original appears in its trace.
C26_NoPointsNoCallbacks ==
    (Called /\ last.method = "run" /\ ~HasInjections(last.target, "run"))
        => \A k \in 1..Len(Trace) : Trace[k].what = "original"

\* The list after a hook is put behind the hooks of its priority or higher.
Placed(prev, hook) ==
    LET ahead == Cardinality({k \in 1..Len(prev) :
                                 prev[k].priority >= hook.priority})
    IN SubSeq(prev, 1, ahead) \o <<hook>> \o SubSeq(prev, ahead + 1, Len(prev))

\* The callbacks a trigger invoked, in order.
Calls(ran) ==
    LET invoked == SelectSeq(ran, LAMBDA e : e.what = "call")
    IN [k \in 1..Len(invoked) |->
           [name |-> invoked[k].name, callback |-> invoked[k].callback,
            priority |-> invoked[k].priority]]

\* C24: every event's hooks are listed in descending priority, a registered
\* hook standing behind the hooks of equal priority registered before it;
\* a trigger invokes the hooks of its event, and only of its event, in list
\* order, each after the one before it completed, whether that one returned,
\* threw or rejected (stated for a trigger during which the event's hooks
\* are not edited).
C24_TriggerInPriorityOrder ==
    /\ \A e \in Events :
          \A i, j \in 1..Len(hooks[e].items) :
              i < j => hooks[e].items[i].priority >= hooks[e].items[j].priority
    /\ (last.op = "hookRegister" /\ last.ok) =>
           hooks[last.method].items =
               Placed(last.prev, [name |-> last.method, callback |-> last.cb,
                                  priority |-> last.arg])
    /\ \A k \in 1..Len(trig.ran) :
          /\ trig.ran[k].name = trig.event
          /\ trig.ran[k].what = "call" <=> k % 2 = 1
          /\ k % 2 = 0 => trig.ran[k].callback = trig.ran[k - 1].callback
    /\ (trig.active /\ ~trig.edited) =>
           Calls(trig.ran) = SubSeq(trig.start, 1, trig.i)
    /\ (trig.done /\ ~trig.edited) => Calls(trig.ran) = trig.start

\* A finished trigger of two hooks of equal priority, the first of which
\* rejected, with a hook registered for the other event.
C24_Witness ==
    /\ trig.done /\ ~trig.edited /\ trig.event = "start"
    /\ Len(trig.start) = 2
    /\ trig.start[1].callback = "rejecter" /\ trig.start[2].callback = "plain"
    /\ trig.start[1].priority = trig.start[2].priority
    /\ Len(trig.ran) = 4 /\ trig.ran[2].what = "caught"
    /\ trig.ran[3].callback = "plain"
    /\ HasHooks("stop")

\* C27: a finished trigger has invoked exactly once every hook that was
\* registered for the event when it started and was not unregistered or
\* cleared while it ran.
C27_EveryHookOnce ==
    trig.done =>
        \A cb \in HookCallbacks :
            (/\ Cardinality({k \in 1..Len(trig.start) :
                                trig.start[k].callback = cb}) = 1
             /\ cb \notin trig.removed)
                => Cardinality({k \in 1..Len(trig.ran) :
                       /\ trig.ran[k].what = "call"
                       /\ trig.ran[k].callback = cb}) = 1

\* C28: getHooks changes nothing that a later operation can notice: every
\* register and unregister succeeds whatever getHooks calls were made
\* before it.
C28_HookQueriesLeaveOperationsAlone ==
    last.op \in {"hookRegister", "hookUnregister"} => last.ok

\* C29: a Server whose MinecraftServer is running is what the registry
\* returns for ('Server', its name).
C29_RunningIsRegistered ==
    \A o \in Servers :
        IsRunning(o) => GetInstance("Server", options[o]) = o

\* C30: of the MinecraftServer instances a Server created, at most one is
\* running.
C30_OneMinecraftServer ==
    \A o \in Servers :
        Cardinality({k \in 1..Len(minecraft) :
                        minecraft[k].owner = o /\ minecraft[k].running}) <= 1

====
